---- MODULE Spec2Model ----
(***************************************************************************)
(* A model of analyze_project.py: the duplicate-Swift-file scan of          *)
(* FlowMaster.  Strings are sequences of one-character strings, so that     *)
(* os.path.dirname, os.path.join and str.endswith are computed on the       *)
(* characters as the library computes them.  The file system is a small     *)
(* tree of directories below the current working directory; it is chosen    *)
(* in Init and never changes.                                               *)
(***************************************************************************)
EXTENDS Naturals, Sequences, FiniteSets

VARIABLES
    fs,             \* the file system: [files, unreadable, links]
    argv,           \* sys.argv
    pc,             \* position of the program
    project_path,   \* analyze_project's parameter
    out,            \* standard output, a sequence of lines
    stack,          \* os.walk: directories still to be scanned, next first
    visited,        \* os.walk: directories scanned so far (real directory ids)
    swift_files,    \* the dict of line 17, as a sequence of <<key, paths>> in insertion order
    idx,            \* position of the loop of line 27 in swift_files.items()
    has_duplicates, \* the flag of line 26
    result,         \* the value analyze_project returned
    prev            \* what the previous call of analyze_project left (groups, result)

vars == <<fs, argv, pc, project_path, out, stack, visited, swift_files, idx,
          has_duplicates, result, prev>>

----------------------------------------------------------------------------
(* Bounds of the model *)

\* directories of the tree, 0 is the current working directory
NumDirs == 4
\* regular files in the tree
MaxFiles == 3

----------------------------------------------------------------------------
(* Strings *)

SEP == "/"
SwiftSuffix == <<".", "s", "w", "i", "f", "t">>
FooSwift == <<"F", "o", "o">> \o SwiftSuffix
fooSwift == <<"f", "o", "o">> \o SwiftSuffix
FooSWIFT == <<"F", "o", "o", ".", "S", "W", "I", "F", "T">>
FileNames == {FooSwift, fooSwift, FooSWIFT}
\* a symbolic link to a directory whose own name ends with the suffix
LinkName == <<"L">> \o SwiftSuffix
Pbxproj == <<"p", "r", "o", "j", "e", "c", "t", ".", "p", "b", "x", "p", "r", "o", "j">>
DefaultProjectPath ==
    <<"F", "l", "o", "w", "M", "a", "s", "t", "e", "r", ".",
      "x", "c", "o", "d", "e", "p", "r", "o", "j">>
Prog == <<"analyze_project.py">>

\* str.endswith
EndsWith(s, suffix) ==
    /\ Len(s) >= Len(suffix)
    /\ SubSeq(s, Len(s) - Len(suffix) + 1, Len(s)) = suffix

\* str.rfind("/") + 1: the 1-based position of the last separator, 0 if none
RFindSep(p) ==
    LET I == {i \in 1..Len(p) : p[i] = SEP}
    IN  IF I = {} THEN 0 ELSE CHOOSE i \in I : \A j \in I : j <= i

\* str.rstrip("/")
RECURSIVE RStripSep(_)
RStripSep(p) ==
    IF p # <<>> /\ p[Len(p)] = SEP THEN RStripSep(SubSeq(p, 1, Len(p) - 1)) ELSE p

\* posixpath.dirname
dirname(p) ==
    LET head == SubSeq(p, 1, RFindSep(p))
    IN  IF head # <<>> /\ (\E i \in 1..Len(head) : head[i] # SEP)
        THEN RStripSep(head)
        ELSE head

\* posixpath.join of two parts
join(a, b) ==
    IF b # <<>> /\ b[1] = SEP THEN b
    ELSE IF a = <<>> \/ a[Len(a)] = SEP THEN a \o b
    ELSE a \o <<SEP>> \o b

\* the components of a path, split at the separators
RECURSIVE Split(_, _)
Split(p, cur) ==
    IF p = <<>> THEN <<cur>>
    ELSE IF p[1] = SEP THEN <<cur>> \o Split(Tail(p), <<>>)
    ELSE Split(Tail(p), Append(cur, p[1]))

----------------------------------------------------------------------------
(* The file system *)

Dirs == 0..(NumDirs - 1)
NoDir == NumDirs
Parent(d) == (d - 1) \div 2
DirName(d) == IF d % 2 = 1 THEN <<"a">> ELSE <<"b">>

\* what the name `name` in directory d leads to when it is opened as a directory
Child(d, name) ==
    IF \E c \in Dirs : c # 0 /\ Parent(c) = d /\ DirName(c) = name
    THEN CHOOSE c \in Dirs : c # 0 /\ Parent(c) = d /\ DirName(c) = name
    ELSE IF name = LinkName /\ \E l \in fs.links : l[1] = d
    THEN (CHOOSE l \in fs.links : l[1] = d)[2]
    ELSE NoDir

\* the directory a relative path names, from the current working directory;
\* the empty path names nothing (ENOENT)
RECURSIVE ResolveFrom(_, _)
ResolveFrom(d, comps) ==
    IF d = NoDir \/ comps = <<>> THEN d
    ELSE IF comps[1] = <<>> \/ comps[1] = <<".">> THEN ResolveFrom(d, Tail(comps))
    ELSE ResolveFrom(Child(d, comps[1]), Tail(comps))

Resolve(p) == IF p = <<>> THEN NoDir ELSE ResolveFrom(0, Split(p, <<>>))

\* the orderings of a finite set: os.scandir lists a directory in any order
Orderings(S) ==
    {s \in [1..Cardinality(S) -> S] : \A i, j \in 1..Cardinality(S) : s[i] = s[j] => i = j}

\* the entries of directory d: [name, dir, islink]; dir is NoDir for a regular file
FileEntries(d) == {e[2] : e \in {f \in fs.files : f[1] = d}}
DirEntries(d) ==
    {[name |-> DirName(c), dir |-> c, islink |-> FALSE] :
        c \in {x \in Dirs : x # 0 /\ Parent(x) = d}}
    \cup {[name |-> LinkName, dir |-> l[2], islink |-> TRUE] :
        l \in {x \in fs.links : x[1] = d}}

----------------------------------------------------------------------------
(* os.walk as line 18 calls it: followlinks and onerror keep their defaults *)

\* a walk that follows symbolic links to directories
followlinks_on == TRUE
followlinks == FALSE
\* a walk whose scan errors are raised to the caller
onerror_raise == "raise"
onerror == "None"

\* os.scandir raises OSError: the path names no directory, or it may not be listed
ScanFails(d) == d = NoDir \/ d \in fs.unreadable

\* a walk that ends at the first directory it cannot list
AfterError_stop(stk) == <<>>

\* what is left to walk after a directory could not be listed
AfterError(stk) == Tail(stk)

\* whether os.walk descends into a subdirectory entry
WalkInto(e) == followlinks \/ ~e.islink

RECURSIVE Children(_, _)
Children(top, ds) ==
    IF ds = <<>> THEN <<>>
    ELSE (IF WalkInto(ds[1])
          THEN <<[path |-> join(top, ds[1].name), dir |-> ds[1].dir]>>
          ELSE <<>>) \o Children(top, Tail(ds))

----------------------------------------------------------------------------
(* The dict swift_files: a sequence of <<key, paths>>, in insertion order *)

Keys(sw) == {sw[i][1] : i \in 1..Len(sw)}
KeyIndex(sw, k) == CHOOSE i \in 1..Len(sw) : sw[i][1] = k
Get(sw, k) == sw[KeyIndex(sw, k)][2]

\* a dict that outlives the call
NewDict_carry == swift_files

\* line 17
NewDict == <<>>

LowerChar(c) ==
    CASE c = "S" -> "s" [] c = "W" -> "w" [] c = "I" -> "i" [] c = "F" -> "f"
      [] c = "T" -> "t" [] OTHER -> c

\* a suffix test that ignores letter case
Matches_nocase(file) == EndsWith([i \in 1..Len(file) |-> LowerChar(file[i])], SwiftSuffix)

\* line 20
Matches(file) == EndsWith(file, SwiftSuffix)

\* an insertion that starts the list anew whether or not the key is there
Add_reset(sw, root, file) ==
    LET d == IF file \notin Keys(sw) THEN Append(sw, <<file, <<>>>>) ELSE sw
        i == KeyIndex(d, file)
    IN  [d EXCEPT ![i] = <<file, <<join(root, file)>>>>]

\* lines 21-23
Add(sw, root, file) ==
    LET d == IF file \notin Keys(sw) THEN Append(sw, <<file, <<>>>>) ELSE sw
        i == KeyIndex(d, file)
    IN  [d EXCEPT ![i] = <<file, Append(d[i][2], join(root, file))>>]

\* lines 19-23: the body of the walk loop for one yielded directory
RECURSIVE Group(_, _, _)
Group(sw, root, files) ==
    IF files = <<>> THEN sw
    ELSE Group(IF Matches(files[1]) THEN Add(sw, root, files[1]) ELSE sw,
               root, Tail(files))

----------------------------------------------------------------------------
(* Output lines *)

BlankLine == <<>>
AnalyzingLine(p) == <<"Analyzing project file:", " ">> \o p
HeaderLine == <<"Duplicate Swift files found:">>
NameLine(filename) == filename \o <<":">>
PathLine(path) == <<"  - ">> \o path
NoDupLine == <<"No duplicate Swift files found.">>

\* the empty line printed first
StartLines_swapped(p) == <<BlankLine, AnalyzingLine(join(p, Pbxproj))>>

\* lines 8-11
StartLines(p) == <<AnalyzingLine(join(p, Pbxproj)), BlankLine>>

\* a test that takes a single path for a duplicate
IsDuplicate_ge1(paths) == Len(paths) >= 1

\* line 28
IsDuplicate(paths) == Len(paths) > 1

RECURSIVE PathLines(_)
PathLines(paths) ==
    IF paths = <<>> THEN <<>> ELSE <<PathLine(paths[1])>> \o PathLines(Tail(paths))

\* a block that leaves out the first path of the group
BlockLines_skipfirst(filename, paths) ==
    <<BlankLine, NameLine(filename)>> \o PathLines(Tail(paths))

\* lines 30-32
BlockLines(filename, paths) == <<BlankLine, NameLine(filename)>> \o PathLines(paths)

----------------------------------------------------------------------------
(* The program *)

ArgPaths ==
    {<<".", SEP>> \o DefaultProjectPath,
     <<"a", SEP>> \o DefaultProjectPath,
     <<"m", SEP>> \o DefaultProjectPath}

LinkTargets == {0, 1}

FileSystems ==
    {[files |-> F, unreadable |-> h[1], links |-> h[2]] :
        F \in {S \in SUBSET (Dirs \X FileNames) : Cardinality(S) <= MaxFiles},
        h \in {<<{}, {}>>}
              \cup {<<{d}, {}>> : d \in Dirs}
              \cup {<<{}, {l}>> : l \in Dirs \X LinkTargets}}

NoPrev == [ran |-> FALSE, groups |-> <<>>, result |-> FALSE, fs |-> {}]

Init ==
    /\ fs \in FileSystems
    /\ argv \in {<<Prog>>} \cup {<<Prog, p>> : p \in ArgPaths}
    /\ pc = "main"
    /\ project_path = <<>>
    /\ out = <<>>
    /\ stack = <<>>
    /\ visited = <<>>
    /\ swift_files = <<>>
    /\ idx = 0
    /\ has_duplicates = FALSE
    /\ result = FALSE
    /\ prev = NoPrev

\* lines 39-41
Main ==
    /\ pc = "main"
    /\ project_path' = IF Len(argv) > 1 THEN argv[2] ELSE DefaultProjectPath
    /\ pc' = "print"
    /\ UNCHANGED <<fs, argv, out, stack, visited, swift_files, idx, has_duplicates,
                   result, prev>>

\* lines 8-11
PrintStart ==
    /\ pc = "print"
    /\ out' = out \o StartLines(project_path)
    /\ pc' = "scan"
    /\ UNCHANGED <<fs, argv, project_path, stack, visited, swift_files, idx,
                   has_duplicates, result, prev>>

\* lines 17-18: the dict is created and os.walk is called on the parent directory
StartWalk ==
    /\ pc = "scan"
    /\ swift_files' = NewDict
    /\ stack' = <<[path |-> dirname(project_path),
                   dir |-> Resolve(dirname(project_path))]>>
    /\ visited' = <<>>
    /\ pc' = "walk"
    /\ UNCHANGED <<fs, argv, project_path, out, idx, has_duplicates, result, prev>>

\* lines 18-23: os.walk scans the next directory and the loop body runs on what
\* it yields; a directory that cannot be listed yields nothing
WalkStep ==
    /\ pc = "walk"
    /\ stack # <<>>
    /\ LET top == Head(stack)
       IN  IF ScanFails(top.dir)
           THEN /\ pc' = IF onerror = "None" THEN "walk" ELSE "aborted"
                /\ stack' = AfterError(stack)
                /\ UNCHANGED <<visited, swift_files>>
           ELSE \E fo \in Orderings(FileEntries(top.dir)),
                   do \in Orderings(DirEntries(top.dir)) :
                    /\ swift_files' = Group(swift_files, top.path, fo)
                    /\ stack' = Children(top.path, do) \o Tail(stack)
                    /\ visited' = Append(visited, top.dir)
                    /\ pc' = "walk"
    /\ UNCHANGED <<fs, argv, project_path, out, idx, has_duplicates, result, prev>>

\* lines 25-26
PrintHeader ==
    /\ pc = "walk"
    /\ stack = <<>>
    /\ out' = Append(out, HeaderLine)
    /\ has_duplicates' = FALSE
    /\ idx' = 1
    /\ pc' = "loop"
    /\ UNCHANGED <<fs, argv, project_path, stack, visited, swift_files, result, prev>>

\* lines 27-32: one iteration of the loop over swift_files.items()
LoopStep ==
    /\ pc = "loop"
    /\ idx <= Len(swift_files)
    /\ LET filename == swift_files[idx][1]
           paths == swift_files[idx][2]
       IN  IF IsDuplicate(paths)
           THEN /\ has_duplicates' = TRUE
                /\ out' = out \o BlockLines(filename, paths)
           ELSE UNCHANGED <<has_duplicates, out>>
    /\ idx' = idx + 1
    /\ UNCHANGED <<fs, argv, pc, project_path, stack, visited, swift_files, result, prev>>

\* lines 34-37
Finish ==
    /\ pc = "loop"
    /\ idx > Len(swift_files)
    /\ out' = IF ~has_duplicates THEN Append(out, NoDupLine) ELSE out
    /\ result' = has_duplicates
    /\ pc' = "done"
    /\ UNCHANGED <<fs, argv, project_path, stack, visited, swift_files, idx,
                   has_duplicates, prev>>

Next == Main \/ PrintStart \/ StartWalk \/ WalkStep \/ PrintHeader \/ LoopStep \/ Finish

Spec == Init /\ [][Next]_vars

\* The program is one thread that runs to its end.  Whether it ends does not
\* depend on the names of the files, so the trees of this specification hold
\* files of one name.
InitFair == Init /\ \A f \in fs.files : f[2] = FooSwift

FairSpec == InitFair /\ [][Next]_vars /\ WF_vars(Next)

\* a second call of analyze_project on the same path, in the same process
Restart ==
    /\ pc = "done"
    /\ ~prev.ran
    /\ prev' = [ran |-> TRUE, groups |-> swift_files, result |-> result, fs |-> fs]
    /\ out' = <<>>
    /\ pc' = "print"
    /\ UNCHANGED <<fs, argv, project_path, stack, visited, swift_files, idx,
                   has_duplicates, result>>

NextTwice == Next \/ Restart

SpecTwice == Init /\ [][NextTwice]_vars

----------------------------------------------------------------------------
(* What the claims speak of *)

\* the directory the walk starts from, NoDir when the path names none
ScanRoot == Resolve(dirname(project_path))

\* the walk is over
Walked == pc \in {"loop", "done"}

\* d lies in the subtree of r
RECURSIVE IsUnder(_, _)
IsUnder(d, r) == d = r \/ (d # 0 /\ IsUnder(Parent(d), r))

\* d lies in the subtree of r and every directory from r down to d can be listed
RECURSIVE CanReach(_, _)
CanReach(d, r) ==
    /\ d \notin fs.unreadable
    /\ d = r \/ (d # 0 /\ CanReach(Parent(d), r))

\* the path of directory d below directory r, whose own path is base
RECURSIVE PathFrom(_, _, _)
PathFrom(d, r, base) ==
    IF d = r \/ d = 0 THEN base ELSE PathFrom(Parent(d), r, base) \o <<SEP>> \o DirName(d)

\* the path of file f below directory r, whose own path is base
FilePath(f, r, base) == PathFrom(f[1], r, base) \o <<SEP>> \o f[2]

IsSwift(name) ==
    /\ Len(name) >= 6
    /\ SubSeq(name, Len(name) - 5, Len(name)) = <<".", "s", "w", "i", "f", "t">>

\* the places <<group, position>> of all grouped paths
Places == {<<i, j>> \in (1..Len(swift_files)) \X (1..MaxFiles) : j <= Len(swift_files[i][2])}
PlacesOf(p) == {x \in Places : swift_files[x[1]][2][x[2]] = p}

SwiftUnder == LET r == ScanRoot IN {f \in fs.files : IsSwift(f[2]) /\ IsUnder(f[1], r)}
SwiftReached == LET r == ScanRoot IN {f \in fs.files : IsSwift(f[2]) /\ CanReach(f[1], r)}

\* every file of F is in the group of its basename, once, and in no other group,
\* and the groups hold nothing else
GroupsAre(F) ==
    LET r == ScanRoot
        base == dirname(project_path)
        Path(f) == FilePath(f, r, base)
    IN  /\ \A f \in F :
            /\ Cardinality(PlacesOf(Path(f))) = 1
            /\ \A x \in PlacesOf(Path(f)) : swift_files[x[1]][1] = f[2]
        /\ \A x \in Places : \E f \in F : swift_files[x[1]][2][x[2]] = Path(f)
        /\ \A i, j \in 1..Len(swift_files) : swift_files[i][1] = swift_files[j][1] => i = j

HasGroupOf2 == \E i \in 1..Len(swift_files) : Len(swift_files[i][2]) >= 2

----------------------------------------------------------------------------
(* C1 *)

\* C1 as stated: after the walk every .swift file under the scan root is in
\* exactly one group, the one of its basename, exactly once, and the groups hold
\* exactly those files.
C1_AllFilesGrouped == Walked => GroupsAre(SwiftUnder)

\* C1 as amended: after the walk the groups hold exactly the .swift files of the
\* directories the walk could list (the scan root and every directory between it
\* and the file are readable), each once and in the group of its basename.
C1_ListedFilesGrouped == Walked => GroupsAre(SwiftReached)

C1_Witness ==
    /\ pc = "done"
    /\ HasGroupOf2
    /\ SwiftReached # SwiftUnder

----------------------------------------------------------------------------
(* C2 *)

\* C2: the returned has_duplicates is true iff some group has two or more
\* paths, and no key of the map ever has an empty path list.
C2_HasDuplicatesIff ==
    /\ pc = "done" => (result <=> HasGroupOf2)
    /\ \A i \in 1..Len(swift_files) : Len(swift_files[i][2]) >= 1

C2_Witness ==
    /\ pc = "done"
    /\ result
    /\ \E i \in 1..Len(swift_files) : Len(swift_files[i][2]) = 1

----------------------------------------------------------------------------
(* C3 *)

\* the path has a directory part and it names no directory
RootMissing == dirname(project_path) # <<>> /\ ScanRoot = NoDir

\* C3 as stated: with a missing scan root the run aborts after the initial
\* line (and the empty line print("") adds): no report line is printed and the
\* call does not return.
C3_MissingRootAborts ==
    (pc \notin {"main", "print"} /\ RootMissing) => (pc # "done" /\ Len(out) <= 2)

\* C3 as amended: with a missing scan root no error is raised; the walk yields
\* nothing and the run prints the initial line, the empty line, the header and
\* "No duplicate Swift files found.", and returns false.
C3_MissingRootReportsNone ==
    (pc \in {"aborted", "done"} /\ RootMissing) =>
        /\ pc # "aborted"
        /\ pc = "done" =>
            /\ out = <<<<"Analyzing project file:", " ">> \o project_path \o <<SEP>> \o Pbxproj,
                       <<>>,
                       <<"Duplicate Swift files found:">>,
                       <<"No duplicate Swift files found.">>>>
            /\ result = FALSE
            /\ swift_files = <<>>

C3_Witness ==
    /\ pc = "done"
    /\ RootMissing
    /\ \E f \in fs.files : IsSwift(f[2])

----------------------------------------------------------------------------
(* C4 *)

\* the directory that contains the last component of the supplied path: the
\* current directory for a bare name
ParentOfPath ==
    IF \A i \in 1..Len(project_path) : project_path[i] # SEP THEN 0 ELSE ScanRoot

\* C4: whatever path is supplied, a bare bundle name included, the walk covers
\* the subtree of the parent directory of that path, and every .swift file it
\* can list there is grouped.
C4_ParentSubtreeWalked ==
    pc = "done" =>
        \A f \in fs.files :
            (IsSwift(f[2]) /\ CanReach(f[1], ParentOfPath)) =>
                (f[1] \in {visited[i] : i \in 1..Len(visited)} /\ f[2] \in Keys(swift_files))

----------------------------------------------------------------------------
(* C5 *)

DupGroups == {i \in 1..Len(swift_files) : Len(swift_files[i][2]) >= 2}
IsNameLine(l) == l # <<>> /\ l[Len(l)] = ":"
IsPathLine(l) == l # <<>> /\ l[1] = "  - "
LinesAt(l) == {n \in 1..Len(out) : out[n] = l}

\* C5: the report has one block for each basename grouped with two or more
\* paths and for no other; a block is the filename line followed by the
\* group's paths, each once, in the order they were appended; and "No duplicate
\* Swift files found." is printed once if no group has two paths, else never.
C5_ReportBlocks ==
    pc = "done" =>
        /\ \A i \in DupGroups :
            LET ps == swift_files[i][2]
                at == LinesAt(swift_files[i][1] \o <<":">>)
            IN  /\ Cardinality(at) = 1
                /\ \A n \in at :
                    /\ n + Len(ps) <= Len(out)
                    /\ \A j \in 1..Len(ps) : out[n + j] = <<"  - ">> \o ps[j]
                    /\ n + Len(ps) < Len(out) => ~IsPathLine(out[n + Len(ps) + 1])
        /\ \A n \in 1..Len(out) :
            IsNameLine(out[n]) =>
                \E i \in DupGroups : out[n] = swift_files[i][1] \o <<":">>
        /\ \A n \in 1..Len(out) :
            IsPathLine(out[n]) =>
                \E i \in DupGroups : \E m \in LinesAt(swift_files[i][1] \o <<":">>) :
                    m < n /\ n <= m + Len(swift_files[i][2])
        /\ Cardinality(LinesAt(<<"No duplicate Swift files found.">>))
            = IF DupGroups = {} THEN 1 ELSE 0

C5_Witness ==
    /\ pc = "done"
    /\ \E i \in DupGroups : Len(swift_files[i][2]) = 2
    /\ \E i \in 1..Len(swift_files) : i \notin DupGroups

----------------------------------------------------------------------------
(* C6 *)

\* an unreadable directory that the walk comes to, below the scan root
Skipped ==
    {u \in fs.unreadable : u # ScanRoot /\ u # 0 /\ CanReach(Parent(u), ScanRoot)}

\* C6: a directory that cannot be listed does not end the run: the walk scans
\* every directory it can list, and every .swift file of those directories is
\* grouped and, when its group has two or more paths, reported.
C6_UnreadableSkipped ==
    /\ pc # "aborted"
    /\ pc = "done" =>
        LET r == ScanRoot
            base == dirname(project_path)
        IN  /\ {visited[i] : i \in 1..Len(visited)} = {d \in Dirs : CanReach(d, r)}
            /\ \A f \in SwiftReached :
                /\ PlacesOf(FilePath(f, r, base)) # {}
                /\ \A x \in PlacesOf(FilePath(f, r, base)) :
                    x[1] \in DupGroups => LinesAt(<<"  - ">> \o FilePath(f, r, base)) # {}

C6_Witness ==
    /\ pc = "done"
    /\ Skipped # {}
    /\ result
    /\ \E f \in fs.files : IsSwift(f[2]) /\ f[1] \in Skipped

----------------------------------------------------------------------------
(* C7 *)

NoRevisit == \A i, j \in 1..Len(visited) : visited[i] = visited[j] => i = j

\* C7: the run ends, symbolic links to ancestor directories included, and no
\* directory is scanned twice.
C7_WalkTerminates == <>(pc = "done") /\ []NoRevisit

\* a link below the scan root that points back to a directory above itself
C7_Witness ==
    /\ pc = "done"
    /\ \E l \in fs.links :
        /\ IsUnder(l[1], l[2])
        /\ \E i \in 1..Len(visited) : visited[i] = l[1]
        /\ \E i \in 1..Len(visited) : visited[i] = l[2]

----------------------------------------------------------------------------
(* C8 *)

\* C8: the "Analyzing project file: <path>/project.pbxproj" line and an empty
\* line come first, before the walk; the header comes after the walk and before
\* every block; in a block the filename line comes before its path lines; and
\* "No duplicate Swift files found." is the last line when it is printed.
C8_OutputOrder ==
    /\ pc \in {"main", "print"} => (out = <<>> /\ visited = <<>>)
    /\ pc \notin {"main", "print"} =>
        /\ Len(out) >= 2
        /\ out[1] = <<"Analyzing project file:", " ">> \o project_path \o <<SEP>> \o Pbxproj
        /\ out[2] = <<>>
    /\ pc \in {"scan", "walk"} => Len(out) = 2
    /\ pc \in {"loop", "done"} => (stack = <<>> /\ Len(out) >= 3)
    /\ \A n \in 1..Len(out) :
        /\ out[n] = <<"Duplicate Swift files found:">> <=> n = 3
        /\ IsNameLine(out[n]) => n > 3
        /\ IsPathLine(out[n]) => (n > 4 /\ (IsNameLine(out[n - 1]) \/ IsPathLine(out[n - 1])))
        /\ out[n] = <<"No duplicate Swift files found.">> => (n = Len(out) /\ pc = "done")

C8_Witness ==
    /\ pc = "done"
    /\ result
    /\ Len(out) = 8

----------------------------------------------------------------------------
(* C9 *)

\* C9: a file is grouped iff its name ends with the lowercase ".swift"; the
\* paths of a group all carry exactly the group's key as their last component;
\* and a block of the report lists only paths of its own filename.
C9_CaseSensitive ==
    Walked =>
        /\ LET r == ScanRoot
               base == dirname(project_path)
           IN  \A f \in fs.files :
                CanReach(f[1], r) => (IsSwift(f[2]) <=> PlacesOf(FilePath(f, r, base)) # {})
        /\ \A x \in Places :
            LET k == swift_files[x[1]][1]
                p == swift_files[x[1]][2][x[2]]
            IN  /\ Len(p) > Len(k)
                /\ SubSeq(p, Len(p) - Len(k), Len(p)) = <<SEP>> \o k
        /\ \A m, n \in 1..Len(out) :
            (/\ m < n
             /\ IsNameLine(out[m])
             /\ \A q \in (m + 1)..n : IsPathLine(out[q]))
            => LET k == SubSeq(out[m], 1, Len(out[m]) - 1)
               IN  /\ Len(out[n]) > Len(k)
                   /\ SubSeq(out[n], Len(out[n]) - Len(k), Len(out[n])) = <<SEP>> \o k

C9_Witness ==
    /\ pc = "done"
    /\ {FooSwift, fooSwift} \subseteq Keys(swift_files)
    /\ \E f \in fs.files : f[2] = FooSWIFT /\ CanReach(f[1], ScanRoot)

----------------------------------------------------------------------------
(* C10 *)

PathSet(sw, k) == {Get(sw, k)[j] : j \in 1..Len(Get(sw, k))}

\* C10: a second call on the unchanged tree ends with the same keys, the same
\* set of paths under each key and the same result, whatever order either walk
\* took; the tree is as it was; and the second call's map starts empty.
C10_Idempotent ==
    /\ (prev.ran /\ pc = "done") =>
        /\ Keys(swift_files) = Keys(prev.groups)
        /\ \A k \in Keys(swift_files) : PathSet(swift_files, k) = PathSet(prev.groups, k)
        /\ result = prev.result
        /\ fs = prev.fs
    /\ (prev.ran /\ pc = "walk" /\ visited = <<>>) => swift_files = <<>>

C10_Witness ==
    /\ prev.ran
    /\ pc = "done"
    /\ result
    /\ swift_files # prev.groups

====
